---- MODULE Spec2Model ----
(***************************************************************************)
(* Model of the hierarchical selection engine of ai_diff_review:           *)
(*   - TreeViewProvider     (change-set tree, providers/treeViewProvider)  *)
(*   - ProjectTreeProvider  (project tree with token rollups)              *)
(*   - isMatch              (ignore patterns, utils/glob)                  *)
(*   - TokenEstimator       (memoized per-file cost)                       *)
(*   - the event wiring of extension.ts                                    *)
(* A path "src/a.ts" is the sequence of its segments <<"src", "a.ts">>;    *)
(* the empty sequence is the workspace root.                               *)
(***************************************************************************)
EXTENDS Integers, Sequences, FiniteSets, TLC

VARIABLES
    \* ---- TreeViewProvider
    targetBranch,          \* "" models undefined
    sourceBranch,
    changedFiles,          \* ChangedFile[]
    checkedFiles,          \* Map<string, TreeItemCheckboxState>
    activeIgnorePatterns,  \* aiReview.diffIgnorePatterns, enabled ones
    loading,               \* loadFiles calls suspended in gitService.getChangedFiles
    \* ---- ProjectTreeProvider
    changedFilesSet,       \* Set<string>
    projectCheckedFiles,   \* Set<string>   (ProjectTreeProvider.checkedFiles)
    projectIgnorePatterns, \* ProjectTreeProvider.activeIgnorePatterns
    cache,                 \* TokenEstimator.cache
    fsFiles,               \* the files of the workspace
    content,               \* length of each project file on disk
    batches,               \* handleCheckboxChanges calls suspended in walkDirectory
    selecting,             \* setAllChecked(true) calls suspended in walkDirectory
    edits,                 \* number of edits of file contents so far
    reading,               \* estimateFromFile calls suspended in readFile or fallback
    returned,              \* the first value estimateFromFile returned for each path
    unreadable,            \* the directories fs.promises.readdir rejects for
    \* ---- observation of events
    csSeen,                \* what onDidChangeTreeData of the change-set tree last showed
    ptSeen,                \* what onDidChangeTreeData of the project tree last showed
    lastOp,                \* the handler step that produced this state
    history                \* the last completed loadFiles: its inputs and result

csVars == <<targetBranch, sourceBranch, changedFiles, checkedFiles,
            activeIgnorePatterns, loading>>
ptVars == <<changedFilesSet, projectCheckedFiles, projectIgnorePatterns, cache,
            fsFiles, content, batches, selecting, edits, reading, returned, unreadable>>
vars == <<csVars, ptVars, csSeen, ptSeen, lastOp, history>>

Checked == "Checked"
Unchecked == "Unchecked"

\* ------------------------------------------------------------------ bounds
\* loadFiles calls in flight at once
MaxLoading == 2
\* entries in one checkbox batch
MaxBatch == 2
\* batches and select-all walks of the project tree in flight at once
MaxInFlight == 1
\* edits of file contents on disk
MaxEdits == 1
\* patterns in a pattern set handed to isMatch
MaxPatterns == 2
\* estimateFromFile calls suspended at the same time
MaxReading == 1

\* ------------------------------------------------------------ sequences
RECURSIVE SeqToSet(_)
SeqToSet(s) == IF s = <<>> THEN {} ELSE {Head(s)} \cup SeqToSet(Tail(s))

IsProperPrefix(p, q) == Len(p) < Len(q) /\ SubSeq(q, 1, Len(p)) = p
Basename(p) == p[Len(p)]

RECURSIVE SumOver(_, _)
SumOver(f, S) ==
    IF S = {} THEN 0
    ELSE LET x == CHOOSE y \in S : TRUE IN f[x] + SumOver(f, S \ {x})

\* --------------------------------------------------------------- strings
\* The characters of the names and patterns the model uses.
Chars(s) ==
    CASE s = "a.ts" -> <<"a", ".", "t", "s">>
      [] s = "b.ts" -> <<"b", ".", "t", "s">>
      [] s = "c.ts" -> <<"c", ".", "t", "s">>
      [] s = "x.js" -> <<"x", ".", "j", "s">>
      [] s = "readme.md" -> <<"r", "e", "a", "d", "m", "e", ".", "m", "d">>
      [] s = "yarn.lock" -> <<"y", "a", "r", "n", ".", "l", "o", "c", "k">>
      [] s = "src" -> <<"s", "r", "c">>
      [] s = "lib" -> <<"l", "i", "b">>
      [] s = "docs" -> <<"d", "o", "c", "s">>
      [] s = "node_modules" -> <<"n", "o", "d", "e", "_", "m", "o", "d", "u", "l", "e", "s">>
      [] s = "*.lock" -> <<"*", ".", "l", "o", "c", "k">>
      [] s = "*.ts" -> <<"*", ".", "t", "s">>
      [] s = " lib " -> <<" ", "l", "i", "b", " ">>
      [] s = "src/lib" -> <<"s", "r", "c", "/", "l", "i", "b">>
      [] s = "out" -> <<"o", "u", "t">>
      [] s = "output" -> <<"o", "u", "t", "p", "u", "t">>
      [] s = "main.js" -> <<"m", "a", "i", "n", ".", "j", "s">>
      [] s = "package-lock.json" -> <<"p", "a", "c", "k", "a", "g", "e", "-", "l", "o", "c", "k", ".", "j", "s", "o", "n">>
      [] s = "package.json" -> <<"p", "a", "c", "k", "a", "g", "e", ".", "j", "s", "o", "n">>
      [] s = "app" -> <<"a", "p", "p">>
      [] s = "a" -> <<"a">>
      [] s = "b" -> <<"b">>
      [] s = " out " -> <<" ", "o", "u", "t", " ">>
      [] s = "out/main.js" -> <<"o", "u", "t", "/", "m", "a", "i", "n", ".", "j", "s">>
      [] s = "  " -> <<" ", " ">>
      [] s = "" -> <<>>

\* String.prototype.localeCompare on the labels of the model, as a rank
Rank(s) ==
    CASE s = "a.ts" -> 1 [] s = "b.ts" -> 2 [] s = "c.ts" -> 3 [] s = "docs" -> 4
      [] s = "lib" -> 5 [] s = "node_modules" -> 6 [] s = "readme.md" -> 7
      [] s = "src" -> 8 [] s = "x.js" -> 9 [] s = "yarn.lock" -> 10

localeCompare(a, b) == Rank(a) - Rank(b)

RECURSIVE TrimLeft(_)
TrimLeft(cs) == IF cs # <<>> /\ Head(cs) = " " THEN TrimLeft(Tail(cs)) ELSE cs

RECURSIVE TrimRight(_)
TrimRight(cs) ==
    IF cs # <<>> /\ cs[Len(cs)] = " " THEN TrimRight(SubSeq(cs, 1, Len(cs) - 1)) ELSE cs

\* the pattern as it was written
NoTrim(cs) == cs

\* String.prototype.trim
Trim(cs) == TrimRight(TrimLeft(cs))

RECURSIVE SplitAcc(_, _)
SplitAcc(cs, cur) ==
    IF cs = <<>> THEN <<cur>>
    ELSE IF Head(cs) = "/" THEN <<cur>> \o SplitAcc(Tail(cs), <<>>)
         ELSE SplitAcc(Tail(cs), Append(cur, Head(cs)))

\* String.prototype.split('/')
Split(cs) == SplitAcc(cs, <<>>)

\* the characters of the segments of a path
PathChars(p) == [i \in 1..Len(p) |-> Chars(p[i])]

\* ---------------------------------------------------------------- isMatch
RECURSIVE GlobSegment(_, _)
\* one pattern segment against one path segment: "*" is any run of characters
\* (dot: true, so a leading dot is matched too), anything else is literal
GlobSegment(pat, name) ==
    IF pat = <<>> THEN name = <<>>
    ELSE IF Head(pat) = "*"
         THEN GlobSegment(Tail(pat), name)
              \/ (name # <<>> /\ GlobSegment(pat, Tail(name)))
         ELSE name # <<>> /\ Head(name) = Head(pat)
              /\ GlobSegment(Tail(pat), Tail(name))

RECURSIVE GlobParts(_, _)
\* the segments of a pattern with a slash against the segments of the path
GlobParts(pats, segs) ==
    IF pats = <<>> THEN segs = <<>>
    ELSE IF Head(pats) = <<"*", "*">>
         THEN IF Len(pats) = 1 THEN segs # <<>>
              ELSE \E k \in 0..Len(segs) :
                      GlobParts(Tail(pats), SubSeq(segs, k + 1, Len(segs)))
         ELSE segs # <<>> /\ GlobSegment(Head(pats), Head(segs))
              /\ GlobParts(Tail(pats), Tail(segs))

\* minimatch(path, pattern, { matchBase: true, dot: true }): a pattern without
\* a slash is matched against the basename, any other against the whole path
minimatch(segs, pattern) ==
    LET parts == Split(pattern)
    IN IF Len(parts) = 1 THEN GlobSegment(parts[1], segs[Len(segs)])
       ELSE GlobParts(parts, segs)

\* some segment begins with the pattern
segmentsIncludePrefix(segments, pattern) ==
    \E j \in 1..Len(segments) :
        /\ Len(segments[j]) >= Len(pattern)
        /\ SubSeq(segments[j], 1, Len(pattern)) = pattern

\* segments.includes(pattern)
segmentsInclude(segments, pattern) ==
    \E j \in 1..Len(segments) : segments[j] = pattern

isMatch(filePath, patterns) ==
    \E i \in 1..Len(patterns) :
        LET pattern == Trim(Chars(patterns[i]))
            segments == PathChars(filePath)
        IN /\ pattern # <<>>
           /\ \/ minimatch(segments, pattern)
              \/ segmentsInclude(segments, pattern)

\* the paths and the patterns isMatch is applied to
MatchPaths ==
    { <<"out", "main.js">>, <<"a", "b", "out", "main.js">>, <<"output", "main.js">>,
      <<"app", "package-lock.json">>, <<"app", "package.json">>,
      <<"src", "lib">>, <<"src", "lib", "c.ts">>, <<"a.ts">>, <<"  ">> }

MatchPatterns ==
    { "", "  ", "out", " out ", "package-lock.json", "*.ts", "src/lib", "out/main.js",
      "lib" }

\* ------------------------------------------------------- version control
\* the branches the user picks from
TargetRefs == {"main"}
SourceRefs == {"dev", "fix"}

ChangedFile(p, st) == [path |-> p, status |-> st]
NoFile == [path |-> <<>>, status |-> ""]

\* GitService.getChangedFiles: the parsed `git diff --name-status target...source`,
\* in the order git printed it
GitDiff(target, source) ==
    CASE target = "main" /\ source = "dev" ->
             << ChangedFile(<<"src", "b.ts">>, "A"),
                ChangedFile(<<"src", "a.ts">>, "M"),
                ChangedFile(<<"docs", "readme.md">>, "D") >>
      [] target = "main" /\ source = "fix" ->
             << ChangedFile(<<"src", "lib", "c.ts">>, "M"),
                ChangedFile(<<"a.ts">>, "M") >>
      [] OTHER -> <<>>

\* a failing git command resolves with empty output, which parses to []
\* exec(['diff', '--name-status', ...]): git prints the list, or fails
GitExec(target, source) ==
    { [err |-> FALSE, files |-> GitDiff(target, source)], [err |-> TRUE, files |-> <<>>] }

\* getChangedFiles: the parsed list, or the empty list when exec rejects
getChangedFiles(r) == IF r.err THEN <<>> ELSE r.files

GitResults(target, source) == {getChangedFiles(r) : r \in GitExec(target, source)}

\* exec(['show', branch:filePath]): the blob of a changed file is missing in
\* the target ref when the file was added and in the source ref when it was deleted
GitShow(branch, file) ==
    IF (branch \in TargetRefs /\ file.status = "A") \/ (branch \in SourceRefs /\ file.status = "D")
    THEN [err |-> TRUE, stdout |-> ""]
    ELSE [err |-> FALSE, stdout |-> "text"]

\* getFileContent: the blob, or the empty string when exec rejects
getFileContent(r) == IF r.err THEN "" ELSE r.stdout

\* the values of aiReview.diffIgnorePatterns the user switches between
DiffPatternSets == { <<>>, <<"*.ts", "">> }

\* ------------------------------------------------------ TreeViewProvider
FileNode(file, state) ==
    [kind |-> "file", label |-> Basename(file.path), file |-> file,
     checkboxState |-> state, children |-> <<>>]

FolderNode(label, children) ==
    [kind |-> "folder", label |-> label, file |-> NoFile,
     checkboxState |-> Unchecked, children |-> children]

\* this.checkedFiles.get(path) ?? Unchecked
GetState(ck, p) == IF p \in DOMAIN ck THEN ck[p] ELSE Unchecked

\* Map.prototype.set
MapSet(m, k, v) == [p \in DOMAIN m \cup {k} |-> IF p = k THEN v ELSE m[p]]

MapSetAll(m, ks, v) == [p \in DOMAIN m \cup ks |-> IF p \in ks THEN v ELSE m[p]]

Paths(files) == {files[i].path : i \in 1..Len(files)}

RECURSIVE addFileToFolder(_, _, _, _)
addFileToFolder(folderNode, pathParts, file, ck) ==
    IF Len(pathParts) = 1
    THEN [folderNode EXCEPT
             !.children = Append(@, FileNode(file, GetState(ck, file.path)))]
    ELSE LET nextFolder == pathParts[1]
             found == {i \in 1..Len(folderNode.children) :
                          /\ folderNode.children[i].kind = "folder"
                          /\ folderNode.children[i].label = nextFolder}
         IN IF found = {}
            THEN [folderNode EXCEPT
                     !.children = Append(@, addFileToFolder(
                         FolderNode(nextFolder, <<>>), Tail(pathParts), file, ck))]
            ELSE LET i == CHOOSE j \in found : \A k \in found : j <= k
                 IN [folderNode EXCEPT
                        !.children[i] = addFileToFolder(@, Tail(pathParts), file, ck)]

RECURSIVE updateFolderCheckboxStatePartial(_)
updateFolderCheckboxStatePartial(folder) ==
    LET kids == [i \in 1..Len(folder.children) |->
                    IF folder.children[i].kind = "folder"
                    THEN updateFolderCheckboxStatePartial(folder.children[i])
                    ELSE folder.children[i]]
        noneChecked == \A i \in 1..Len(kids) : kids[i].checkboxState # Checked
    IN [folder EXCEPT !.children = kids,
                      !.checkboxState = IF noneChecked THEN Unchecked ELSE Checked]

RECURSIVE updateFolderCheckboxState(_)
updateFolderCheckboxState(folder) ==
    LET kids == [i \in 1..Len(folder.children) |->
                    IF folder.children[i].kind = "folder"
                    THEN updateFolderCheckboxState(folder.children[i])
                    ELSE folder.children[i]]
        allChecked == \A i \in 1..Len(kids) : kids[i].checkboxState = Checked
        noneChecked == \A i \in 1..Len(kids) : kids[i].checkboxState # Checked
    IN [folder EXCEPT
           !.children = kids,
           !.checkboxState = IF allChecked /\ Len(kids) > 0 THEN Checked
                             ELSE IF noneChecked THEN Unchecked
                             ELSE Unchecked]

RECURSIVE SortInsert(_, _)
SortInsert(sorted, n) ==
    IF sorted = <<>> THEN <<n>>
    ELSE IF localeCompare(n.label, Head(sorted).label) < 0 THEN <<n>> \o sorted
         ELSE <<Head(sorted)>> \o SortInsert(Tail(sorted), n)

RECURSIVE SortByLabel(_)
\* Array.prototype.sort (stable) with (a, b) => a.label.localeCompare(b.label)
SortByLabel(nodes) ==
    IF nodes = <<>> THEN <<>>
    ELSE SortInsert(SortByLabel(SubSeq(nodes, 1, Len(nodes) - 1)), nodes[Len(nodes)])

RECURSIVE BuildLoop(_, _, _, _)
\* the loop of buildFileTree over this.changedFiles: rootNodes in Map insertion
\* order, fileNodes in push order
BuildLoop(files, ck, rootNodes, fileNodes) ==
    IF files = <<>> THEN [rootNodes |-> rootNodes, fileNodes |-> fileNodes]
    ELSE LET file == Head(files)
             parts == file.path
         IN IF Len(parts) = 1
            THEN BuildLoop(Tail(files), ck, rootNodes,
                           Append(fileNodes, FileNode(file, GetState(ck, file.path))))
            ELSE LET found == {i \in 1..Len(rootNodes) : rootNodes[i].label = parts[1]}
                     roots == IF found = {}
                              THEN Append(rootNodes, FolderNode(parts[1], <<>>))
                              ELSE rootNodes
                     i == CHOOSE j \in 1..Len(roots) : roots[j].label = parts[1]
                 IN BuildLoop(Tail(files), ck,
                              [roots EXCEPT ![i] = addFileToFolder(@, Tail(parts), file, ck)],
                              fileNodes)

buildFileTree(files, ck) ==
    LET built == BuildLoop(files, ck, <<>>, <<>>)
        rootNodes == [i \in 1..Len(built.rootNodes) |->
                         updateFolderCheckboxState(built.rootNodes[i])]
    IN SortByLabel(rootNodes) \o SortByLabel(built.fileNodes)

\* getCheckedFiles(): changedFiles.filter(f => checkedFiles.get(f.path) === Checked)
RECURSIVE FilterChecked(_, _)
FilterChecked(files, ck) ==
    IF files = <<>> THEN <<>>
    ELSE IF Head(files).path \in DOMAIN ck /\ ck[Head(files).path] = Checked
         THEN <<Head(files)>> \o FilterChecked(Tail(files), ck)
         ELSE FilterChecked(Tail(files), ck)

getCheckedFiles == FilterChecked(changedFiles, checkedFiles)

\* the filter of loadFiles is left out
FilterIgnoredNone(files, patterns) == files

RECURSIVE FilterIgnored(_, _)
\* allFiles.filter(file => !isMatch(file.path, this.activeIgnorePatterns))
FilterIgnored(files, patterns) ==
    IF files = <<>> THEN <<>>
    ELSE IF isMatch(Head(files).path, patterns) THEN FilterIgnored(Tail(files), patterns)
         ELSE <<Head(files)>> \o FilterIgnored(Tail(files), patterns)

RECURSIVE AllNodes(_)
\* the nodes of a tree, at every depth
AllNodes(nodes) ==
    UNION { {nodes[i]} \cup AllNodes(nodes[i].children) : i \in 1..Len(nodes) }

RECURSIVE DescendantFiles(_)
\* the paths updateFolderChildren reaches from a folder node
DescendantFiles(node) ==
    UNION { IF node.children[i].kind = "file" THEN {node.children[i].file.path}
            ELSE DescendantFiles(node.children[i])
            : i \in 1..Len(node.children) }

\* updateFolderChildren without its recursion into child folders
updateDirectChildren(ck, folder, state) ==
    MapSetAll(ck, {folder.children[i].file.path :
                      i \in {j \in 1..Len(folder.children) : folder.children[j].kind = "file"}},
              state)

\* updateFolderChildren(folder, state), on this.checkedFiles
updateFolderChildren(ck, folder, state) == MapSetAll(ck, DescendantFiles(folder), state)

RECURSIVE ApplyFileItems(_, _)
\* for (const [fileNode, state] of fileItems) { ... }
ApplyFileItems(items, ck) ==
    IF items = <<>> THEN ck
    ELSE LET node == Head(items).node
         IN IF node.kind = "file"
            THEN ApplyFileItems(Tail(items), MapSet(ck, node.file.path, Head(items).state))
            ELSE ApplyFileItems(Tail(items), ck)

RECURSIVE ApplyFolderItems(_, _, _)
\* for (const [folderNode, state] of folderItems) { ... }
ApplyFolderItems(items, ck, shouldPropagateFolderState) ==
    IF items = <<>> THEN ck
    ELSE LET node == Head(items).node
         IN IF node.kind = "folder" /\ shouldPropagateFolderState
            THEN ApplyFolderItems(Tail(items),
                                  updateFolderChildren(ck, node, Head(items).state),
                                  shouldPropagateFolderState)
            ELSE ApplyFolderItems(Tail(items), ck, shouldPropagateFolderState)

HasFileItem(items) == \E i \in 1..Len(items) : items[i].node.kind = "file"

\* the folder entries are cascaded whatever else the batch holds
AlwaysPropagate(items) == TRUE

\* const shouldPropagateFolderState = fileItems.length === 0
ShouldPropagateFolderState(items) == ~HasFileItem(items)

\* what handleCheckboxChanges(items) leaves in this.checkedFiles
ApplyBatch(items, ck) ==
    ApplyFolderItems(items, ApplyFileItems(items, ck), ShouldPropagateFolderState(items))

\* the paths the file entries of a batch name
NamedFiles(items) ==
    {items[i].node.file.path : i \in {j \in 1..Len(items) : items[j].node.kind = "file"}}

HasFolderItem(items) == \E i \in 1..Len(items) : items[i].node.kind = "folder"

\* sequences of at most n elements of S
SeqsUpTo(S, n) == UNION {[1..k -> S] : k \in 1..n}

\* the batches the host can deliver: entries for distinct nodes of the tree
\* it holds
Batches(view) ==
    {items \in SeqsUpTo([node : AllNodes(view), state : {Checked, Unchecked}], MaxBatch) :
        \A i, j \in 1..Len(items) : i # j => items[i].node # items[j].node}

\* ------------------------------------------------------------ file system
\* workspaces, as the root-relative paths of their files
SmallWorkspace ==
    { <<"a.ts">>, <<"src", "a.ts">>, <<"src", "b.ts">>, <<"src", "lib", "c.ts">> }

\* a workspace whose root holds a.ts, yarn.lock and the folder node_modules
LockWorkspace == { <<"a.ts">>, <<"yarn.lock">>, <<"node_modules", "x.js">> }

\* a workspace with two folders and two files at its root
WideWorkspace ==
    { <<"docs", "readme.md">>, <<"src", "a.ts">>, <<"src", "b.ts">>, <<"a.ts">>,
      <<"yarn.lock">> }

\* a workspace with a file that cannot be read
CostWorkspace == { <<"a.ts">>, <<"docs", "readme.md">> }

\* the content of a file that fs.readFile rejects for
Unreadable == -1

Dirs(files) == UNION { {SubSeq(p, 1, k) : k \in 0..(Len(p) - 1)} : p \in files }

\* the length of each file's content when the extension starts
InitialLength(p) ==
    CASE p = <<"a.ts">> -> 5
      [] p = <<"yarn.lock">> -> 4
      [] p = <<"node_modules", "x.js">> -> 0
      [] p = <<"src", "a.ts">> -> 8
      [] p = <<"src", "b.ts">> -> 9
      [] p = <<"src", "lib", "c.ts">> -> 1
      [] p = <<"docs", "readme.md">> -> Unreadable

\* the lengths an edit leaves
EditedLengths == {13}

\* what an edit, a deletion or a change of permissions leaves
CostLengths == {0, 4, Unreadable}

RECURSIVE SortedNames(_)
SortedNames(S) ==
    IF S = {} THEN <<>>
    ELSE LET n == CHOOSE x \in S : \A y \in S : Rank(x) <= Rank(y)
         IN <<n>> \o SortedNames(S \ {n})

\* fs.promises.readdir(dir, { withFileTypes: true }); a path that is no directory
\* rejects, which both callers catch and turn into an empty list
Readdir(dir) ==
    LET below == {p \in fsFiles : IsProperPrefix(dir, p)}
        names == SortedNames({p[Len(dir) + 1] : p \in below})
    IN [i \in 1..Len(names) |->
           [name |-> names[i],
            isDirectory |-> \E p \in below : p[Len(dir) + 1] = names[i]
                                             /\ Len(p) > Len(dir) + 1]]

\* no directory is taken as unreadable
ReaddirNeverRejects(dir) == FALSE

\* fs.promises.readdir(dir) rejects
ReaddirRejects(dir) == dir \in unreadable

\* --------------------------------------------------------- TokenEstimator
\* Math.floor(n / 4)
FloorDiv4(n) == n \div 4

\* Math.ceil(n / 4)
CeilDiv4(n) == (n + 3) \div 4

Max(a, b) == IF a >= b THEN a ELSE b

\* estimateTokens(text), on the length of the text
estimateTokens(len) == IF len = 0 THEN 0 ELSE Max(1, CeilDiv4(len))

\* the fallbacks a caller can hand to estimateFromFile: none, one that
\* rejects, one that resolves to a text of the given length
NoFallback == [kind |-> "none", length |-> 0]

Fallbacks ==
    {NoFallback, [kind |-> "throws", length |-> 0], [kind |-> "content", length |-> 6]}

\* the length of `content` after the try/catch of estimateFromFile, for a
\* file of length len on disk
ReadLength(len, fallback) ==
    IF len # Unreadable THEN len
    ELSE IF fallback.kind = "content" THEN fallback.length
    ELSE 0

\* this.cache.has(fsPath)
CacheHit(c, fsPath) == fsPath \in DOMAIN c

\* this.cache.set(fsPath, tokens)
CacheSet(c, fsPath, tokens) ==
    [p \in DOMAIN c \cup {fsPath} |-> IF p = fsPath THEN tokens ELSE c[p]]

\* estimateFromFile(fsPath) for every path of `files`: the values returned are
\* the entries of the cache afterwards
estimateFromFile(c, files) ==
    [p \in DOMAIN c \cup files |->
        IF CacheHit(c, p) THEN c[p]
        ELSE estimateTokens(ReadLength(content[p], NoFallback))]

\* the first value returned for each path, after calls that left the cache c
Returned(r, c) ==
    [p \in DOMAIN r \cup DOMAIN c |-> IF p \in DOMAIN r THEN r[p] ELSE c[p]]

\* ---------------------------------------------------- ProjectTreeProvider
RECURSIVE walkDirectory(_, _)
RECURSIVE WalkList(_, _, _)
\* the loop of walkDirectory over the entries of one directory
WalkList(list, dir, patterns) ==
    IF list = <<>> THEN <<>>
    ELSE LET dirent == Head(list)
             relativePath == Append(dir, dirent.name)
         IN IF isMatch(relativePath, patterns) THEN WalkList(Tail(list), dir, patterns)
            ELSE IF dirent.isDirectory
                 THEN walkDirectory(relativePath, patterns)
                      \o WalkList(Tail(list), dir, patterns)
                 ELSE <<relativePath>> \o WalkList(Tail(list), dir, patterns)

walkDirectory(dir, patterns) ==
    IF ReaddirRejects(dir) THEN <<>> ELSE WalkList(Readdir(dir), dir, patterns)

\* files.filter(f => !this.changedFilesSet.has(f)), dropped
NoFilter(files, locked) == SeqToSet(files)

\* files.filter(f => !this.changedFilesSet.has(f))
Eligible(files, locked) == SeqToSet(files) \ locked

\* computeFolderMetadata with checkedCount > 0 as its test
computeFolderMetadataAny(relativePath, c) ==
    LET files == walkDirectory(relativePath, projectIgnorePatterns)
        eligible == Eligible(files, changedFilesSet)
        after == estimateFromFile(c, eligible)
        checkedCount == Cardinality(eligible \cap projectCheckedFiles)
    IN IF eligible = {}
       THEN [state |-> Unchecked, tokenCount |-> 0, cache |-> c]
       ELSE [state |-> IF checkedCount > 0 THEN Checked ELSE Unchecked,
             tokenCount |-> SumOver(after, eligible),
             cache |-> after]

\* computeFolderMetadata(relativePath): [state, tokenTotal] and the cache it leaves
computeFolderMetadata(relativePath, c) ==
    LET files == walkDirectory(relativePath, projectIgnorePatterns)
        eligible == Eligible(files, changedFilesSet)
        after == estimateFromFile(c, eligible)
        checkedCount == Cardinality(eligible \cap projectCheckedFiles)
    IN IF eligible = {}
       THEN [state |-> Unchecked, tokenCount |-> 0, cache |-> c]
       ELSE [state |-> IF checkedCount = Cardinality(eligible) THEN Checked
                       ELSE Unchecked,
             tokenCount |-> SumOver(after, eligible),
             cache |-> after]

ProjectFolderNode(label, relativePath, state, tokenCount) ==
    [kind |-> "folder", label |-> label, relativePath |-> relativePath,
     checkboxState |-> state, tokenCount |-> tokenCount, isChangedFile |-> FALSE]

ProjectFileNode(label, relativePath, state, isChangedFile, tokenCount) ==
    [kind |-> "file", label |-> label, relativePath |-> relativePath,
     checkboxState |-> state, tokenCount |-> tokenCount,
     isChangedFile |-> isChangedFile]

RECURSIVE ListLoop(_, _, _)
\* the loop of getChildren over the entries of folderPath: the nodes pushed and
\* the cache the token counts leave
ListLoop(dirents, folderPath, c) ==
    IF dirents = <<>> THEN [nodes |-> <<>>, cache |-> c]
    ELSE LET dirent == Head(dirents)
             relativePath == Append(folderPath, dirent.name)
             isChangedFile == relativePath \in changedFilesSet
         IN IF isMatch(relativePath, projectIgnorePatterns)
            THEN ListLoop(Tail(dirents), folderPath, c)
            ELSE IF dirent.isDirectory
                 THEN LET m == computeFolderMetadata(relativePath, c)
                          rest == ListLoop(Tail(dirents), folderPath, m.cache)
                      IN [nodes |-> <<ProjectFolderNode(dirent.name, relativePath,
                                          m.state, m.tokenCount)>> \o rest.nodes,
                          cache |-> rest.cache]
                 ELSE LET after == estimateFromFile(c, {relativePath})
                          state == IF isChangedFile THEN "undefined"
                                   ELSE IF relativePath \in projectCheckedFiles
                                        THEN Checked ELSE Unchecked
                          rest == ListLoop(Tail(dirents), folderPath, after)
                      IN [nodes |-> <<ProjectFileNode(dirent.name, relativePath, state,
                                          isChangedFile, after[relativePath])>>
                                    \o rest.nodes,
                          cache |-> rest.cache]

RECURSIVE SelectKind(_, _)
SelectKind(nodes, kind) ==
    IF nodes = <<>> THEN <<>>
    ELSE IF Head(nodes).kind = kind THEN <<Head(nodes)>> \o SelectKind(Tail(nodes), kind)
         ELSE SelectKind(Tail(nodes), kind)

\* the nodes in the order they were pushed
UnsortedProjectNodes(nodes) == nodes

\* nodes.sort(...): folders before files, each group by label
SortProjectNodes(nodes) ==
    SortByLabel(SelectKind(nodes, "folder")) \o SortByLabel(SelectKind(nodes, "file"))

\* getChildren(element): the sorted nodes and the cache afterwards
getChildren(folderPath) ==
    LET listed == ListLoop(Readdir(folderPath), folderPath, cache)
    IN IF ReaddirRejects(folderPath) THEN [nodes |-> <<>>, cache |-> cache]
       ELSE [nodes |-> SortProjectNodes(listed.nodes), cache |-> listed.cache]

\* ------------------------------------------- ProjectTreeProvider: batches
\* setFileCheckbox(node, state), on the selection set
setFileCheckbox(selected, relativePath, state) ==
    IF state = Checked THEN selected \cup {relativePath}
    ELSE selected \ {relativePath}

RECURSIVE ProjectApplyFileItems(_, _)
\* the first loop of handleCheckboxChanges: file nodes that carry a checkbox
ProjectApplyFileItems(items, selected) ==
    IF items = <<>> THEN selected
    ELSE LET item == Head(items)
         IN ProjectApplyFileItems(Tail(items),
                IF item.node.kind = "file" /\ item.node.hasCheckbox
                THEN setFileCheckbox(selected, item.node.relativePath, item.state)
                ELSE selected)

RECURSIVE ProjectFolderItems(_)
\* folderItems, as handleCheckboxChanges collects it
ProjectFolderItems(items) ==
    IF items = <<>> THEN <<>>
    ELSE IF Head(items).node.kind = "folder"
         THEN <<[relativePath |-> Head(items).node.relativePath,
                 state |-> Head(items).state]>> \o ProjectFolderItems(Tail(items))
         ELSE ProjectFolderItems(Tail(items))

\* the paths the file entries of a batch name
ProjectNamedFiles(items) ==
    {items[i].node.relativePath : i \in {j \in 1..Len(items) : items[j].node.kind = "file"}}

\* one round of the second loop of handleCheckboxChanges, after its await
CascadeFolder(selected, folder, state) ==
    LET files == walkDirectory(folder, projectIgnorePatterns)
        eligible == {f \in SeqToSet(files) : f \notin changedFilesSet}
    IN IF state = Checked THEN selected \cup eligible ELSE selected \ eligible

\* getSelectedTokenTotal() over every path that has an estimate
getEstimatedTokenTotal(c) ==
    LET after == estimateFromFile(c, projectCheckedFiles)
    IN [total |-> SumOver(after, DOMAIN after), cache |-> after]

\* getSelectedTokenTotal(): the total and the cache it leaves
getSelectedTokenTotal(c) ==
    LET after == estimateFromFile(c, projectCheckedFiles)
    IN [total |-> SumOver(after, projectCheckedFiles), cache |-> after]

\* the body of setAllChecked(true) without its test on changedFilesSet
SelectAllWalked(selected) ==
    selected \cup SeqToSet(walkDirectory(<<>>, projectIgnorePatterns))

\* the body of setAllChecked(true), after its await
SelectAll(selected) ==
    LET files == walkDirectory(<<>>, projectIgnorePatterns)
    IN selected \cup {f \in SeqToSet(files) : f \notin changedFilesSet}

\* the nodes the host can hold for the workspace: a file node carries a
\* checkbox when its path was not in the change set as the node was built
FileEntries ==
    [node : [kind : {"file"}, relativePath : fsFiles, hasCheckbox : BOOLEAN],
     state : {Checked, Unchecked}]

FolderEntries ==
    [node : [kind : {"folder"}, relativePath : Dirs(fsFiles) \ {<<>>},
             hasCheckbox : {TRUE}],
     state : {Checked, Unchecked}]

\* the batches the host delivers: one entry, a file entry with a folder entry,
\* or two folder entries
ProjectBatches ==
    LET offered == {x \in FileEntries : x.node.hasCheckbox}
    IN {<<e>> : e \in FileEntries \cup FolderEntries}
       \cup {<<e, d>> : e \in offered, d \in FolderEntries}
       \cup {<<d, e>> : e \in offered, d \in FolderEntries}
       \cup {p \in {<<d, e>> : d \in FolderEntries, e \in FolderEntries} :
                 p[1].node # p[2].node}

\* the toggles of one file node
FileToggles == {<<e>> : e \in FileEntries}

\* ------------------------------------------------------------ observation
\* lastOp: which handler step produced the state, and what it did; inFlight
\* counts the other batches of the project tree suspended as the step began,
\* selFires the firings of _onDidUpdateSelection in the step
Op(name) ==
    [op |-> name, checked |-> FALSE, named |-> {}, folderItems |-> FALSE,
     completed |-> FALSE, csFires |-> 0, ptFires |-> 0, inFlight |-> 0,
     folderPath |-> <<>>, nodes |-> <<>>,
     same |-> FALSE, changed |-> FALSE, prev |-> <<>>,
     path |-> <<>>, value |-> 0, hit |-> FALSE, fallback |-> NoFallback,
     patterns |-> <<>>, result |-> FALSE, failed |-> FALSE, output |-> <<>>,
     selFires |-> 0]

SetDelta(a, b) == (a \ b) \cup (b \ a)

TreeSnapshot(files, ck) == [changedFiles |-> files, checkedFiles |-> ck]

ProjectSnapshot(locked, selected) == [changedFilesSet |-> locked, checkedFiles |-> selected]

\* history: the last completed loadFiles(), its inputs and its result
NoLoad == [done |-> FALSE, allFiles |-> <<>>, patterns |-> <<>>, checkedPaths |-> <<>>]

\* ------------------------------------------------------------------- Init
StartFields(workspace) ==
    /\ targetBranch = ""
    /\ sourceBranch = ""
    /\ changedFiles = <<>>
    /\ checkedFiles = <<>>
    /\ activeIgnorePatterns = <<>>
    /\ loading = <<>>
    /\ changedFilesSet = {}
    /\ projectCheckedFiles = {}
    /\ projectIgnorePatterns = <<>>
    /\ cache = <<>>
    /\ fsFiles = workspace
    /\ content = [p \in workspace |-> InitialLength(p)]
    /\ batches = <<>>
    /\ selecting = 0
    /\ edits = 0
    /\ reading = <<>>
    /\ returned = <<>>
    /\ unreadable = {}
    /\ csSeen = TreeSnapshot(<<>>, <<>>)
    /\ ptSeen = ProjectSnapshot({}, {})
    /\ history = NoLoad

Start(workspace) == StartFields(workspace) /\ lastOp = Op("init")

Init == Start(SmallWorkspace)

\* ---------------------------------------- ProjectTreeProvider: change set
\* the given paths are added to the set that is there
MergeLocked(locked, paths) == locked \cup paths

\* this.changedFilesSet = new Set(files.map(f => f.path))
ReplaceLocked(locked, paths) == paths

\* updateChangedFiles(files), with the refresh() it ends with
updateChangedFiles(paths) ==
    /\ changedFilesSet' = ReplaceLocked(changedFilesSet, paths)
    /\ ptSeen' = ProjectSnapshot(paths, projectCheckedFiles)

projectRest == <<projectCheckedFiles, projectIgnorePatterns, cache, fsFiles, content,
                 batches, selecting, edits, reading, returned, unreadable>>

\* ---------------------------------------------- TreeViewProvider: actions
\* getChildren(undefined)
CurrentTree ==
    IF sourceBranch # "" /\ targetBranch # "" /\ Len(changedFiles) > 0
    THEN buildFileTree(changedFiles, checkedFiles)
    ELSE <<>>

\* refresh() without the subscription of extension.ts
refreshUnwired(files, ck) ==
    /\ csSeen' = TreeSnapshot(files, ck)
    /\ UNCHANGED <<changedFilesSet, ptSeen>>

\* refresh(): onDidChangeTreeData fires, and the subscription of extension.ts
\* passes getChangedFiles() to the project tree
refresh(files, ck) ==
    /\ csSeen' = TreeSnapshot(files, ck)
    /\ updateChangedFiles(Paths(files))

\* loadFiles() up to its await of gitService.getChangedFiles(target, source)
loadFilesCall(target, source) ==
    /\ Len(loading) < MaxLoading
    /\ loading' = Append(loading, [target |-> target, source |-> source])

TreeUpdateConfig(t, s) ==
    LET targetChanged == t # "undefined" /\ t # targetBranch
        sourceChanged == s # "undefined" /\ s # sourceBranch
        newTarget == IF targetChanged THEN t ELSE targetBranch
        newSource == IF sourceChanged THEN s ELSE sourceBranch
        shouldLoadFiles == targetChanged \/ sourceChanged
    IN /\ targetBranch' = newTarget
       /\ sourceBranch' = newSource
       /\ IF shouldLoadFiles /\ newTarget # "" /\ newSource # ""
          THEN /\ loadFilesCall(newTarget, newSource)
               /\ lastOp' = Op("updateConfig")
               /\ UNCHANGED <<csSeen, changedFilesSet, ptSeen>>
          ELSE /\ refresh(changedFiles, checkedFiles)
               /\ lastOp' = [Op("updateConfig") EXCEPT !.csFires = 1, !.ptFires = 1]
               /\ UNCHANGED loading
       /\ UNCHANGED <<changedFiles, checkedFiles, activeIgnorePatterns,
                      projectRest, history>>

\* selectTargetBranch() from the point where the user has picked a branch
TreeSelectTargetBranch(b) ==
    /\ targetBranch' = b
    /\ refresh(changedFiles, checkedFiles)
    /\ IF sourceBranch # "" THEN loadFilesCall(b, sourceBranch) ELSE UNCHANGED loading
    /\ lastOp' = [Op("selectTargetBranch") EXCEPT !.csFires = 1, !.ptFires = 1]
    /\ UNCHANGED <<sourceBranch, changedFiles, checkedFiles, activeIgnorePatterns,
                   projectRest, history>>

\* selectSourceBranch() from the point where the user has picked a branch
TreeSelectSourceBranch(b) ==
    /\ sourceBranch' = b
    /\ refresh(changedFiles, checkedFiles)
    /\ IF targetBranch # "" THEN loadFilesCall(targetBranch, b) ELSE UNCHANGED loading
    /\ lastOp' = [Op("selectSourceBranch") EXCEPT !.csFires = 1, !.ptFires = 1]
    /\ UNCHANGED <<targetBranch, changedFiles, checkedFiles, activeIgnorePatterns,
                   projectRest, history>>

\* onDidChangeConfiguration for aiReview.diffIgnorePatterns
TreeConfigurationChanged(patterns) ==
    /\ activeIgnorePatterns' = patterns
    /\ IF sourceBranch # "" /\ targetBranch # ""
       THEN loadFilesCall(targetBranch, sourceBranch)
       ELSE UNCHANGED loading
    /\ lastOp' = Op("diffIgnorePatterns")
    /\ UNCHANGED <<targetBranch, sourceBranch, changedFiles, checkedFiles,
                   changedFilesSet, projectRest, csSeen, ptSeen, history>>

RemoveAt(s, i) == SubSeq(s, 1, i - 1) \o SubSeq(s, i + 1, Len(s))

\* this.checkedFiles.clear() is left out: the states of the last load survive
loadFilesKeep(allFiles, ck) ==
    LET files == FilterIgnored(allFiles, activeIgnorePatterns)
    IN [changedFiles |-> files,
        checkedFiles |-> [p \in Paths(files) |-> IF p \in DOMAIN ck THEN ck[p] ELSE Checked]]

\* loadFiles() after the await: the filter, the clear and the default selection
loadFiles(allFiles, ck) ==
    LET files == FilterIgnored(allFiles, activeIgnorePatterns)
    IN [changedFiles |-> files,
        checkedFiles |-> [p \in Paths(files) |-> Checked]]

\* a suspended loadFiles() resumes with the answer of version control
TreeLoadFiles(i, allFiles) ==
    LET r == loadFiles(allFiles, checkedFiles)
        same == /\ history.done
                /\ history.allFiles = allFiles
                /\ history.patterns = activeIgnorePatterns
    IN /\ changedFiles' = r.changedFiles
       /\ checkedFiles' = r.checkedFiles
       /\ refresh(r.changedFiles, r.checkedFiles)
       /\ loading' = RemoveAt(loading, i)
       /\ lastOp' = [Op("loadFiles") EXCEPT
                        !.completed = TRUE, !.csFires = 1, !.ptFires = 1,
                        !.same = same,
                        !.changed = same /\ getCheckedFiles # history.checkedPaths,
                        !.prev = IF same THEN history.checkedPaths ELSE <<>>]
       /\ history' = [done |-> TRUE, allFiles |-> allFiles,
                      patterns |-> activeIgnorePatterns,
                      checkedPaths |-> FilterChecked(r.changedFiles, r.checkedFiles)]
       /\ UNCHANGED <<targetBranch, sourceBranch, activeIgnorePatterns,
                      projectRest>>

\* the loop of setAllChecked(checked) over this.changedFiles
setAllChecked(checked, files, ck) ==
    MapSetAll(ck, Paths(files), IF checked THEN Checked ELSE Unchecked)

TreeSetAllChecked(checked) ==
    LET ck == setAllChecked(checked, changedFiles, checkedFiles)
    IN /\ checkedFiles' = ck
       /\ refresh(changedFiles, ck)
       /\ lastOp' = [Op("setAllChecked") EXCEPT !.completed = TRUE,
                        !.checked = checked,
                        !.csFires = 1, !.ptFires = 1]
       /\ UNCHANGED <<targetBranch, sourceBranch, changedFiles, activeIgnorePatterns,
                      loading, projectRest, history>>

\* refresh() moved into the loop over the entries
RefreshesPerEntry(items) == Len(items)

\* the refresh() calls of one handleCheckboxChanges(items): the one at its end
Refreshes(items) == 1

\* handleCheckboxChanges(items), the entries holding nodes of the tree as
\* getChildren(undefined) builds it
TreeHandleCheckboxChanges(items) ==
    LET ck == ApplyBatch(items, checkedFiles)
    IN /\ checkedFiles' = ck
       /\ refresh(changedFiles, ck)
       /\ lastOp' = [Op("handleCheckboxChanges") EXCEPT
                        !.completed = TRUE,
                        !.named = NamedFiles(items),
                        !.folderItems = HasFolderItem(items),
                        !.csFires = Refreshes(items), !.ptFires = Refreshes(items)]
       /\ UNCHANGED <<targetBranch, sourceBranch, changedFiles, activeIgnorePatterns,
                      loading, projectRest, history>>

\* the arguments updateConfig gets for a branch: a name, "" or undefined
BranchArgs(refs) == refs \cup {"", "undefined"}

TreeNext ==
    \/ \E t \in BranchArgs(TargetRefs), s \in BranchArgs(SourceRefs) :
          TreeUpdateConfig(t, s)
    \/ \E b \in TargetRefs : TreeSelectTargetBranch(b)
    \/ \E b \in SourceRefs : TreeSelectSourceBranch(b)
    \/ \E patterns \in DiffPatternSets : TreeConfigurationChanged(patterns)
    \/ \E i \in 1..Len(loading) :
          \E allFiles \in GitResults(loading[i].target, loading[i].source) :
             TreeLoadFiles(i, allFiles)
    \/ \E checked \in BOOLEAN : TreeSetAllChecked(checked)
    \/ \E items \in Batches(CurrentTree) : TreeHandleCheckboxChanges(items)

SpecTree == Init /\ [][TreeNext]_vars

\* ------------------------------------------- ProjectTreeProvider: actions
treeRest == <<targetBranch, sourceBranch, changedFiles, checkedFiles,
              activeIgnorePatterns, loading, csSeen, history>>

\* refresh() of the project tree
projectRefresh(selected) == ptSeen' = ProjectSnapshot(changedFilesSet, selected)

\* the operations of the project tree that are suspended in a walk
InFlight == Len(batches) + selecting

\* the subscription of extension.ts on its own: the change-set tree notifies
\* and the project tree gets the paths of its files
ChangeSetChanged(paths) ==
    /\ updateChangedFiles(paths)
    /\ lastOp' = [Op("updateChangedFiles") EXCEPT
                     !.named = paths, !.completed = TRUE, !.ptFires = 1]
    /\ UNCHANGED <<treeRest, projectRest>>

\* onDidChangeConfiguration for aiReview.ignorePatterns
ProjectConfigurationChanged(patterns) ==
    /\ projectIgnorePatterns' = patterns
    /\ projectRefresh(projectCheckedFiles)
    /\ lastOp' = [Op("ignorePatterns") EXCEPT !.ptFires = 1]
    /\ UNCHANGED <<treeRest, changedFilesSet, projectCheckedFiles, cache, fsFiles,
                   content, batches, selecting, edits, reading, returned, unreadable>>

\* the options setAllChecked(true) passes to vscode.window.withProgress; an
\* option that is not passed reads as false, and the task takes no token
SelectAllProgress ==
    [location |-> "Notification", title |-> "Selecting all project files...",
     cancellable |-> FALSE, token |-> FALSE]

\* this.checkedFiles.clear() is left out
keepChecked(selected) == selected

\* this.checkedFiles.clear()
clearChecked(selected) == {}

\* setAllChecked(checked): false clears and returns, true suspends in the walk
ProjectSetAllChecked(checked) ==
    /\ IF ~checked
       THEN /\ projectCheckedFiles' = clearChecked(projectCheckedFiles)
            /\ projectRefresh(clearChecked(projectCheckedFiles))
            /\ lastOp' = [Op("project.setAllChecked") EXCEPT
                             !.completed = TRUE, !.ptFires = 1, !.inFlight = Len(batches)]
            /\ UNCHANGED selecting
       ELSE /\ InFlight < MaxInFlight
            /\ selecting' = selecting + 1
            /\ lastOp' = [Op("project.setAllChecked") EXCEPT
                             !.checked = TRUE, !.inFlight = Len(batches)]
            /\ UNCHANGED <<projectCheckedFiles, ptSeen>>
    /\ UNCHANGED <<treeRest, changedFilesSet, projectIgnorePatterns, cache, fsFiles,
                   content, batches, edits, reading, returned, unreadable>>

\* setAllChecked(true) resumes with the result of its walk
ProjectSelectAllDone ==
    /\ selecting > 0
    /\ selecting' = selecting - 1
    /\ projectCheckedFiles' = SelectAll(projectCheckedFiles)
    /\ projectRefresh(SelectAll(projectCheckedFiles))
    /\ lastOp' = [Op("project.selectAll") EXCEPT
                     !.checked = TRUE, !.completed = TRUE, !.ptFires = 1,
                     !.selFires = 1,
                     !.inFlight = Len(batches)]
    /\ UNCHANGED <<treeRest, changedFilesSet, projectIgnorePatterns, cache, fsFiles,
                   content, batches, edits, reading, returned, unreadable>>

\* handleCheckboxChanges(items) up to its first await: the file entries are
\* applied; without folder entries the handler runs to its end
ProjectHandleCheckboxChanges(items) ==
    LET selected == ProjectApplyFileItems(items, projectCheckedFiles)
        folderItems == ProjectFolderItems(items)
        op == [Op("project.handleCheckboxChanges") EXCEPT
                  !.named = ProjectNamedFiles(items),
                  !.folderItems = folderItems # <<>>,
                  !.inFlight = Len(batches)]
    IN /\ projectCheckedFiles' = selected
       /\ IF folderItems = <<>>
          THEN /\ projectRefresh(selected)
               /\ lastOp' = [op EXCEPT !.completed = TRUE, !.ptFires = Refreshes(items),
                                       !.selFires = 1]
               /\ UNCHANGED batches
          ELSE /\ InFlight < MaxInFlight
               /\ batches' = Append(batches, [folderItems |-> folderItems,
                                              named |-> ProjectNamedFiles(items)])
               /\ lastOp' = op
               /\ UNCHANGED ptSeen
       /\ UNCHANGED <<treeRest, changedFilesSet, projectIgnorePatterns, cache, fsFiles,
                      content, selecting, edits, reading, returned, unreadable>>

\* a suspended handleCheckboxChanges resumes with the result of the walk of
\* its next folder entry; after the last one it refreshes
ProjectWalkDone(i) ==
    LET batch == batches[i]
        folder == Head(batch.folderItems)
        selected == CascadeFolder(projectCheckedFiles, folder.relativePath, folder.state)
        op == [Op("project.walk") EXCEPT
                  !.named = batch.named, !.folderItems = TRUE,
                  !.folderPath = folder.relativePath,
                  !.checked = (folder.state = Checked),
                  !.inFlight = Len(batches) - 1]
    IN /\ projectCheckedFiles' = selected
       /\ IF Tail(batch.folderItems) = <<>>
          THEN /\ batches' = RemoveAt(batches, i)
               /\ projectRefresh(selected)
               /\ lastOp' = [op EXCEPT !.completed = TRUE, !.ptFires = 1, !.selFires = 1]
          ELSE /\ batches' = [batches EXCEPT ![i].folderItems = Tail(batch.folderItems)]
               /\ lastOp' = op
               /\ UNCHANGED ptSeen
       /\ UNCHANGED <<treeRest, changedFilesSet, projectIgnorePatterns, cache, fsFiles,
                      content, selecting, edits, reading, returned, unreadable>>

\* getChildren(element) for the folder at folderPath, taken as one step
ProjectGetChildren(folderPath) ==
    LET listed == getChildren(folderPath)
    IN /\ cache' = listed.cache
       /\ returned' = Returned(returned, listed.cache)
       /\ lastOp' = [Op("project.getChildren") EXCEPT
                        !.folderPath = folderPath, !.nodes = listed.nodes]
       /\ UNCHANGED <<treeRest, changedFilesSet, projectCheckedFiles,
                      projectIgnorePatterns, fsFiles, content, batches, selecting,
                      edits, reading, unreadable, ptSeen>>

\* getSelectedTokenTotal(), taken as one step
ProjectGetSelectedTokenTotal ==
    LET result == getSelectedTokenTotal(cache)
    IN /\ cache' = result.cache
       /\ returned' = Returned(returned, result.cache)
       /\ lastOp' = [Op("project.getSelectedTokenTotal") EXCEPT
                        !.value = result.total, !.completed = TRUE]
       /\ UNCHANGED <<treeRest, changedFilesSet, projectCheckedFiles,
                      projectIgnorePatterns, fsFiles, content, batches, selecting,
                      edits, reading, unreadable, ptSeen>>

\* estimateFromFile(fsPath, fallback) up to its first await: a cached value is
\* returned at once, otherwise the call suspends in readFile
EstimateBegin(fsPath, fallback) ==
    LET op == [Op("estimateFromFile") EXCEPT !.path = fsPath, !.fallback = fallback]
    IN /\ IF CacheHit(cache, fsPath)
          THEN /\ lastOp' = [op EXCEPT !.value = cache[fsPath], !.hit = TRUE,
                                       !.completed = TRUE]
               /\ UNCHANGED reading
          ELSE /\ Len(reading) < MaxReading
               /\ reading' = Append(reading, [fsPath |-> fsPath, fallback |-> fallback])
               /\ lastOp' = op
       /\ UNCHANGED <<treeRest, changedFilesSet, projectCheckedFiles,
                      projectIgnorePatterns, cache, fsFiles, content, batches,
                      selecting, edits, returned, unreadable, ptSeen>>

\* a suspended estimateFromFile resumes with what readFile (or the fallback)
\* gave, stores the estimate and returns it; the file is read as it is on
\* disk when the call resumes
EstimateDone(i) ==
    LET call == reading[i]
        tokens == estimateTokens(ReadLength(content[call.fsPath], call.fallback))
    IN /\ reading' = RemoveAt(reading, i)
       /\ cache' = CacheSet(cache, call.fsPath, tokens)
       /\ returned' = Returned(returned, CacheSet(cache, call.fsPath, tokens))
       /\ lastOp' = [Op("estimateFromFile") EXCEPT
                        !.path = call.fsPath, !.fallback = call.fallback,
                        !.value = tokens, !.completed = TRUE]
       /\ UNCHANGED <<treeRest, changedFilesSet, projectCheckedFiles,
                      projectIgnorePatterns, fsFiles, content, batches, selecting,
                      edits, unreadable, ptSeen>>

\* the user saves a file of the workspace
EditFile(f, len) ==
    /\ edits < MaxEdits
    /\ content[f] # len
    /\ content' = [content EXCEPT ![f] = len]
    /\ edits' = edits + 1
    /\ lastOp' = Op("edit")
    /\ UNCHANGED <<treeRest, changedFilesSet, projectCheckedFiles,
                   projectIgnorePatterns, cache, fsFiles, batches, selecting, reading,
                   returned, unreadable, ptSeen>>

\* the change sets the project tree is handed: what the change-set tree keeps
\* of an answer of version control
LockedSets ==
    {Paths(allFiles) : allFiles \in UNION {GitResults(t, s) : t \in TargetRefs, s \in SourceRefs}}

\* the values of aiReview.ignorePatterns the user switches between
ProjectPatternSets == { <<>>, <<" lib ", "  ">> }

\* the same, with a pattern that names a directory by its path
ListingPatternSets == { <<>>, <<"src/lib">> }

ProjectNext ==
    \/ \E paths \in LockedSets : ChangeSetChanged(paths)
    \/ \E patterns \in ProjectPatternSets : ProjectConfigurationChanged(patterns)
    \/ \E checked \in BOOLEAN : ProjectSetAllChecked(checked)
    \/ ProjectSelectAllDone
    \/ \E items \in ProjectBatches : ProjectHandleCheckboxChanges(items)
    \/ \E i \in 1..Len(batches) : ProjectWalkDone(i)

SpecProject == Init /\ [][ProjectNext]_vars

ListingNext ==
    \/ \E folderPath \in Dirs(fsFiles) : ProjectGetChildren(folderPath)
    \/ \E f \in fsFiles, len \in EditedLengths : EditFile(f, len)
    \/ \E paths \in LockedSets : ChangeSetChanged(paths)
    \/ \E patterns \in ListingPatternSets : ProjectConfigurationChanged(patterns)
    \/ \E items \in FileToggles : ProjectHandleCheckboxChanges(items)

SpecListing == Init /\ [][ListingNext]_vars

\* both trees, wired as extension.ts wires them: the change set of the project
\* tree is what the change-set tree hands over when it notifies
\* a directory of the workspace loses or regains its read permission
SetReadable(dir, ok) ==
    /\ (dir \in unreadable) = ok
    /\ unreadable' = IF ok THEN unreadable \ {dir} ELSE unreadable \cup {dir}
    /\ lastOp' = Op("chmod")
    /\ UNCHANGED <<treeRest, changedFilesSet, projectCheckedFiles, projectIgnorePatterns,
                   cache, fsFiles, content, batches, selecting, edits, reading,
                   returned, ptSeen>>

\* gitService.getChangedFiles(target, source), as one call
GetChangedFilesCall(target, source) ==
    /\ \E r \in GitExec(target, source) :
           lastOp' = [Op("getChangedFiles") EXCEPT
                         !.failed = r.err, !.output = getChangedFiles(r)]
    /\ UNCHANGED <<csVars, ptVars, csSeen, ptSeen, history>>

\* gitService.getFileContent(branch, filePath) for a file of a change set
GetFileContentCall(branch, file) ==
    /\ lastOp' = [Op("getFileContent") EXCEPT
                     !.path = file.path, !.failed = GitShow(branch, file).err,
                     !.output = getFileContent(GitShow(branch, file))]
    /\ UNCHANGED <<csVars, ptVars, csSeen, ptSeen, history>>

\* the operations that read directories, change lists and blobs
AbsenceNext ==
    \/ \E dir \in Dirs(fsFiles), ok \in BOOLEAN : SetReadable(dir, ok)
    \/ \E folderPath \in Dirs(fsFiles) : ProjectGetChildren(folderPath)
    \/ \E checked \in BOOLEAN : ProjectSetAllChecked(checked)
    \/ ProjectSelectAllDone
    \/ \E t \in TargetRefs, s \in SourceRefs : GetChangedFilesCall(t, s)
    \/ \E t \in TargetRefs, s \in SourceRefs :
          \E i \in 1..Len(GitDiff(t, s)), branch \in {t, s} :
              GetFileContentCall(branch, GitDiff(t, s)[i])

SpecAbsence == Init /\ [][AbsenceNext]_vars

\* the selection under single toggles, select-all and changing locks
SelectionNext ==
    \/ \E paths \in LockedSets : ChangeSetChanged(paths)
    \/ \E patterns \in ProjectPatternSets : ProjectConfigurationChanged(patterns)
    \/ \E checked \in BOOLEAN : ProjectSetAllChecked(checked)
    \/ ProjectSelectAllDone
    \/ \E items \in FileToggles : ProjectHandleCheckboxChanges(items)

SpecSelection == Init /\ [][SelectionNext]_vars

\* the selection and its cost total
TotalNext ==
    \/ \E checked \in BOOLEAN : ProjectSetAllChecked(checked)
    \/ ProjectSelectAllDone
    \/ \E items \in FileToggles : ProjectHandleCheckboxChanges(items)
    \/ \E f \in fsFiles, len \in EditedLengths : EditFile(f, len)
    \/ ProjectGetSelectedTokenTotal

SpecTotal == Init /\ [][TotalNext]_vars

\* the estimator and its callers
InitEstimator == Start(CostWorkspace)

EstimatorNext ==
    \/ \E f \in fsFiles, fallback \in Fallbacks : EstimateBegin(f, fallback)
    \/ \E i \in 1..Len(reading) : EstimateDone(i)
    \/ \E f \in fsFiles, len \in CostLengths : EditFile(f, len)
    \/ \E folderPath \in Dirs(fsFiles) : ProjectGetChildren(folderPath)

SpecEstimator == InitEstimator /\ [][EstimatorNext]_vars

\* the listing of a directory under ignore patterns
ChildrenPatternSets == { <<>>, <<"*.lock", "node_modules">> }

InitChildren == \E workspace \in {LockWorkspace, WideWorkspace} : Start(workspace)

ChildrenNext ==
    \/ \E folderPath \in Dirs(fsFiles) : ProjectGetChildren(folderPath)
    \/ \E patterns \in ChildrenPatternSets : ProjectConfigurationChanged(patterns)
    \/ \E paths \in LockedSets : ChangeSetChanged(paths)

SpecChildren == InitChildren /\ [][ChildrenNext]_vars

\* ------------------------------------------------------------- loadConfig
\* what config.get('ignorePatterns') or config.get('diffIgnorePatterns') can
\* return: an array of patterns, an object from patterns to booleans (its
\* entries in insertion order), or a value of another type
ConfigPatterns == {"*.ts", "lib", "*.lock"}

ConfigValues ==
    {[kind |-> "array", items |-> items, entries |-> <<>>] :
         items \in {<<>>} \cup SeqsUpTo(ConfigPatterns, MaxPatterns)}
    \cup {[kind |-> "object", items |-> <<>>, entries |-> entries] :
         entries \in {<<>>} \cup
             {e \in SeqsUpTo([key : ConfigPatterns, value : BOOLEAN], MaxPatterns) :
                 \A i, j \in 1..Len(e) : i # j => e[i].key # e[j].key}}
    \cup {[kind |-> k, items |-> <<>>, entries |-> <<>>] :
         k \in {"string", "number", "null", "undefined"}}

\* patterns[p] = true: an entry that is there keeps its place
setPattern(entries, p) ==
    IF \E i \in 1..Len(entries) : entries[i].key = p
    THEN [i \in 1..Len(entries) |->
             IF entries[i].key = p THEN [key |-> p, value |-> TRUE] ELSE entries[i]]
    ELSE Append(entries, [key |-> p, value |-> TRUE])

RECURSIVE forEachPattern(_, _)
\* rawConfig.forEach((p) => { patterns[p] = true; })
forEachPattern(items, entries) ==
    IF items = <<>> THEN entries
    ELSE forEachPattern(Tail(items), setPattern(entries, Head(items)))

\* the entries are kept whatever value they carry
enabledAll(entries) == entries

\* .filter(([_, isEnabled]) => isEnabled)
enabledOnly(entries) == SelectSeq(entries, LAMBDA e : e.value)

\* loadConfig(), the same code in both providers: what it leaves in
\* this.activeIgnorePatterns
loadConfig(rawConfig) ==
    LET patterns == IF rawConfig.kind = "array" THEN forEachPattern(rawConfig.items, <<>>)
                    ELSE IF rawConfig.kind = "object" THEN rawConfig.entries
                    ELSE <<>>
        enabled == enabledOnly(patterns)
    IN [i \in 1..Len(enabled) |-> enabled[i].key]

\* loadConfig as a function of the configuration value: the value is drawn at
\* the start and the change handler of one provider is one step
InitConfig ==
    /\ StartFields(SmallWorkspace)
    /\ \E rawConfig \in ConfigValues : lastOp = [Op("input") EXCEPT !.output = rawConfig]

\* onDidChangeConfiguration of one provider: loadConfig(), then loadFiles()
\* (which returns at once while no branch is set) or refresh()
LoadConfigCall(project) ==
    /\ lastOp.op = "input"
    /\ IF project
       THEN /\ projectIgnorePatterns' = loadConfig(lastOp.output)
            /\ projectRefresh(projectCheckedFiles)
            /\ lastOp' = [lastOp EXCEPT !.op = "loadConfig", !.ptFires = 1,
                                        !.patterns = loadConfig(lastOp.output)]
            /\ UNCHANGED activeIgnorePatterns
       ELSE /\ activeIgnorePatterns' = loadConfig(lastOp.output)
            /\ lastOp' = [lastOp EXCEPT !.op = "loadConfig",
                                        !.patterns = loadConfig(lastOp.output)]
            /\ UNCHANGED <<projectIgnorePatterns, ptSeen>>
    /\ UNCHANGED <<targetBranch, sourceBranch, changedFiles, checkedFiles, loading,
                   changedFilesSet, projectCheckedFiles, cache, fsFiles, content, batches,
                   selecting, edits, reading, returned, unreadable, csSeen, history>>

ConfigNext == \E project \in BOOLEAN : LoadConfigCall(project)

SpecConfig == InitConfig /\ [][ConfigNext]_vars

\* isMatch as a function of its arguments: the arguments are drawn at the
\* start and the call is one step
InitMatch ==
    /\ StartFields(SmallWorkspace)
    /\ \E filePath \in MatchPaths, patterns \in SeqsUpTo(MatchPatterns, MaxPatterns) :
           lastOp = [Op("input") EXCEPT !.path = filePath, !.patterns = patterns]

IsMatchCall ==
    /\ lastOp.op = "input"
    /\ lastOp' = [lastOp EXCEPT !.op = "isMatch",
                                !.result = isMatch(lastOp.path, lastOp.patterns)]
    /\ UNCHANGED <<csVars, ptVars, csSeen, ptSeen, history>>

MatchNext == IsMatchCall

SpecMatch == InitMatch /\ [][MatchNext]_vars

\* the toggles of one file node of the change-set tree
TreeToggles(view) ==
    {<<e>> : e \in {x \in [node : AllNodes(view), state : {Checked, Unchecked}] :
                       x.node.kind = "file"}}

\* the change-set tree under new refs, a new filter and changing check marks
LockedNext ==
    \/ \E s \in SourceRefs : TreeUpdateConfig("main", s)
    \/ \E patterns \in DiffPatternSets : TreeConfigurationChanged(patterns)
    \/ \E i \in 1..Len(loading) :
          \E allFiles \in GitResults(loading[i].target, loading[i].source) :
             TreeLoadFiles(i, allFiles)
    \/ \E checked \in BOOLEAN : TreeSetAllChecked(checked)
    \/ \E items \in TreeToggles(CurrentTree) : TreeHandleCheckboxChanges(items)

SpecLocked == Init /\ [][LockedNext]_vars

OneEntry(batchSet) == {items \in batchSet : Len(items) = 1}

\* the batches without a file entry that one gesture delivers to the change-set
\* tree: the entry of a folder, alone or with the entry of another folder that
\* took the same value
FolderGestures(view) ==
    LET entries == {e \in [node : AllNodes(view), state : {Checked, Unchecked}] :
                       e.node.kind = "folder"}
    IN {<<e>> : e \in entries}
       \cup {p \in {<<e, d>> : e \in entries, d \in entries} :
                 p[1].node # p[2].node /\ p[1].state = p[2].state}

\* the batches of the project tree without a file entry, its entries with the
\* one value of the gesture
ProjectFolderBatches ==
    {items \in ProjectBatches :
        /\ ProjectNamedFiles(items) = {}
        /\ \A i \in 1..Len(items) : items[i].state = items[1].state}

\* the toggles of the file nodes that the project tree lists with a checkbox
ListedToggles ==
    {<<e>> : e \in {x \in FileEntries :
                       x.node.hasCheckbox /\ x.node.relativePath \notin changedFilesSet}}

\* the values of aiReview.ignorePatterns that hide one file of src
CascadePatternSets == { <<>>, <<"b.ts">> }

\* the state after updateConfig("main", "fix") and the loadFiles() it starts
\* have run in a new session
InitCascade ==
    LET r == loadFiles(GitDiff("main", "fix"), <<>>)
    IN /\ activeIgnorePatterns = <<>>
       /\ targetBranch = "main"
       /\ sourceBranch = "fix"
       /\ changedFiles = r.changedFiles
       /\ checkedFiles = r.checkedFiles
       /\ loading = <<>>
       /\ changedFilesSet = Paths(r.changedFiles)
       /\ projectCheckedFiles = {}
       /\ projectIgnorePatterns = <<>>
       /\ cache = <<>>
       /\ fsFiles = SmallWorkspace
       /\ content = [p \in SmallWorkspace |-> InitialLength(p)]
       /\ batches = <<>>
       /\ selecting = 0
       /\ edits = 0
       /\ reading = <<>>
       /\ returned = <<>>
       /\ unreadable = {}
       /\ csSeen = TreeSnapshot(r.changedFiles, r.checkedFiles)
       /\ ptSeen = ProjectSnapshot(Paths(r.changedFiles), {})
       /\ history = [done |-> TRUE, allFiles |-> GitDiff("main", "fix"),
                     patterns |-> <<>>,
                     checkedPaths |-> FilterChecked(r.changedFiles, r.checkedFiles)]
       /\ lastOp = [Op("loadFiles") EXCEPT !.completed = TRUE, !.csFires = 1, !.ptFires = 1]

\* folder entries and single file toggles in both trees
CascadeNext ==
    \/ \E items \in FolderGestures(CurrentTree) \cup TreeToggles(CurrentTree) :
          TreeHandleCheckboxChanges(items)
    \/ \E patterns \in CascadePatternSets : ProjectConfigurationChanged(patterns)
    \/ \E items \in ProjectFolderBatches \cup ListedToggles :
          ProjectHandleCheckboxChanges(items)
    \/ \E i \in 1..Len(batches) : ProjectWalkDone(i)

SpecCascade == InitCascade /\ [][CascadeNext]_vars

\* what one gesture of the user delivers: the entry of the node toggled, or the
\* entry of a file with the derived entry of a folder above it
Gestures(view) ==
    LET entries == [node : AllNodes(view), state : {Checked, Unchecked}]
    IN {<<e>> : e \in entries}
       \cup {p \in {<<e, d>> : e \in entries, d \in entries} :
                 /\ p[1].node.kind = "file"
                 /\ p[2].node.kind = "folder"
                 /\ p[1].node \in AllNodes(p[2].node.children)}

Next ==
    \/ \E t \in TargetRefs : TreeUpdateConfig(t, "fix")
    \/ \E i \in 1..Len(loading) :
          \E allFiles \in GitResults(loading[i].target, loading[i].source) :
             TreeLoadFiles(i, allFiles)
    \/ \E checked \in BOOLEAN : TreeSetAllChecked(checked)
    \/ \E items \in Gestures(CurrentTree) : TreeHandleCheckboxChanges(items)
    \/ \E patterns \in ProjectPatternSets : ProjectConfigurationChanged(patterns)
    \/ \E checked \in BOOLEAN : ProjectSetAllChecked(checked)
    \/ ProjectSelectAllDone
    \/ \E items \in OneEntry(ProjectBatches) : ProjectHandleCheckboxChanges(items)
    \/ \E i \in 1..Len(batches) : ProjectWalkDone(i)

Spec == Init /\ [][Next]_vars

\* ------------------------------------------------------------------ claims
RECURSIVE FolderNodes(_, _)
\* the folder nodes of a change-set tree, each with its path
FolderNodes(nodes, prefix) ==
    UNION {IF nodes[i].kind = "folder"
           THEN {[path |-> Append(prefix, nodes[i].label),
                  checkboxState |-> nodes[i].checkboxState]}
                \cup FolderNodes(nodes[i].children, Append(prefix, nodes[i].label))
           ELSE {} : i \in 1..Len(nodes)}

\* the changed files below a folder of the change-set tree
FilesUnder(folder) == {p \in Paths(changedFiles) : IsProperPrefix(folder, p)}

\* C1: in the change-set tree, after a rebuild, setAllChecked or a batch, every
\* folder node of the next tree build, nested ones included, shows Checked if
\* and only if it has a descendant file and every descendant file is Checked,
\* and Unchecked in every other case.
C1_FolderShowsDescendants ==
    lastOp.op \in {"loadFiles", "setAllChecked", "handleCheckboxChanges"} =>
        \A n \in FolderNodes(buildFileTree(changedFiles, checkedFiles), <<>>) :
            n.checkboxState =
                IF /\ FilesUnder(n.path) # {}
                   /\ \A p \in FilesUnder(n.path) : GetState(checkedFiles, p) = Checked
                THEN Checked ELSE Unchecked

\* a batch has left a folder with some but not all of its files Checked
C1_Witness ==
    /\ lastOp.op = "handleCheckboxChanges"
    /\ \E n \in FolderNodes(buildFileTree(changedFiles, checkedFiles), <<>>) :
          /\ n.checkboxState = Unchecked
          /\ \E p, q \in FilesUnder(n.path) :
                /\ GetState(checkedFiles, p) = Checked
                /\ GetState(checkedFiles, q) = Unchecked

\* a file below folder d that the walk of d skips: the file, or a directory
\* between d and the file, matches an ignore pattern
Ignored(f, d) ==
    \E k \in (Len(d) + 1)..Len(f) : isMatch(SubSeq(f, 1, k), projectIgnorePatterns)

\* the files below folder d that are neither ignored nor locked
EligibleUnder(d) ==
    {f \in fsFiles : IsProperPrefix(d, f) /\ ~Ignored(f, d) /\ f \notin changedFilesSet}

\* the folder nodes the last getChildren returned
ListedFolders ==
    {lastOp.nodes[i] : i \in {j \in 1..Len(lastOp.nodes) : lastOp.nodes[j].kind = "folder"}}

\* C2: in the project tree, every folder node getChildren returns is Checked
\* if and only if the files below it that are neither ignored nor locked are
\* at least one and all in the selection set at listing time; otherwise it is
\* Unchecked.
C2_ProjectFolderSelection ==
    lastOp.op = "project.getChildren" =>
        \A n \in ListedFolders :
            n.checkboxState =
                IF /\ EligibleUnder(n.relativePath) # {}
                   /\ EligibleUnder(n.relativePath) \subseteq projectCheckedFiles
                THEN Checked ELSE Unchecked

\* a listed folder is Checked although a file below it, locked or ignored, is
\* not selected; another listing shows a folder with only part of its files
\* selected
C2_Witness ==
    /\ lastOp.op = "project.getChildren"
    /\ \E n \in ListedFolders :
          /\ n.checkboxState = Checked
          /\ \E f \in fsFiles :
                /\ IsProperPrefix(n.relativePath, f)
                /\ f \notin EligibleUnder(n.relativePath)
                /\ f \notin projectCheckedFiles

\* C3: in the project tree, the cost of every folder node getChildren returns
\* is the sum of the estimates of the files below it that are neither ignored
\* nor locked; a locked file adds nothing, and a folder without such a file
\* costs 0.
C3_ProjectFolderCost ==
    lastOp.op = "project.getChildren" =>
        \A n \in ListedFolders :
            /\ EligibleUnder(n.relativePath) \subseteq DOMAIN cache
            /\ n.tokenCount = SumOver(cache, EligibleUnder(n.relativePath))
            /\ EligibleUnder(n.relativePath) = {} => n.tokenCount = 0

\* a listed folder has a cost and a locked file with an estimate below it
C3_Witness ==
    /\ lastOp.op = "project.getChildren"
    /\ \E n \in ListedFolders :
          /\ n.tokenCount > 0
          /\ \E f \in changedFilesSet \cap DOMAIN cache :
                IsProperPrefix(n.relativePath, f) /\ cache[f] > 0

\* C4: in the change-set tree, a batch with at least one file entry together
\* with folder entries changes the selection of the files its file entries
\* name and of no other file, siblings below the listed folders included.
C4_BatchKeepsSiblings ==
    [][(/\ lastOp'.op = "handleCheckboxChanges"
        /\ lastOp'.named # {}
        /\ lastOp'.folderItems)
       => \A p \in Paths(changedFiles) \ lastOp'.named :
              GetState(checkedFiles', p) = GetState(checkedFiles, p)]_vars

\* after a batch with a file entry and a folder entry, a sibling of the named
\* file has the other state
C4_Witness ==
    /\ lastOp.op = "handleCheckboxChanges"
    /\ lastOp.folderItems
    /\ \E p \in lastOp.named, q \in Paths(changedFiles) \ lastOp.named :
          /\ Len(p) > 1
          /\ Len(q) = Len(p)
          /\ SubSeq(q, 1, Len(q) - 1) = SubSeq(p, 1, Len(p) - 1)
          /\ GetState(checkedFiles, q) # GetState(checkedFiles, p)

\* C5: in the project tree, a batch with at least one file entry together with
\* folder entries does not cascade its folder entries: only the files its file
\* entries name enter or leave the selection set, in any step of the batch.
C5_ProjectBatchKeepsOthers ==
    [][(/\ lastOp'.op \in {"project.handleCheckboxChanges", "project.walk"}
        /\ lastOp'.named # {}
        /\ lastOp'.folderItems)
       => SetDelta(projectCheckedFiles, projectCheckedFiles') \subseteq lastOp'.named]_vars

\* C6: setAllChecked(false) on either tree leaves getCheckedFiles empty,
\* whatever the selection, the change set and the ignore patterns were.
C6_DeselectAllEmpties ==
    /\ (lastOp.op = "setAllChecked" /\ ~lastOp.checked) => getCheckedFiles = <<>>
    /\ (lastOp.op = "project.setAllChecked" /\ ~lastOp.checked)
          => projectCheckedFiles = {}

\* the change-set tree is deselected while it has files, the project tree has
\* a change set and a selection of its own
C6_Witness ==
    /\ lastOp.op = "setAllChecked"
    /\ ~lastOp.checked
    /\ changedFiles # <<>>
    /\ changedFilesSet # {}
    /\ projectCheckedFiles # {}

\* C7: after loadFiles completes, getCheckedFiles is the changed paths version
\* control returned that match no diff-ignore pattern, whatever was checked
\* before, and every folder of the rebuilt tree shows Checked.
C7_RebuildSelectsAll ==
    lastOp.op = "loadFiles" =>
        /\ Paths(getCheckedFiles)
              = {f.path : f \in {g \in SeqToSet(history.allFiles) :
                                     ~isMatch(g.path, activeIgnorePatterns)}}
        /\ Len(getCheckedFiles) = Cardinality(Paths(getCheckedFiles))
        /\ \A n \in FolderNodes(buildFileTree(changedFiles, checkedFiles), <<>>) :
              n.checkboxState = Checked

\* a rebuild that kept some of the changed paths and dropped the ignored ones
C7_Witness ==
    /\ lastOp.op = "loadFiles"
    /\ getCheckedFiles # <<>>
    /\ Len(getCheckedFiles) < Len(history.allFiles)
    /\ FolderNodes(buildFileTree(changedFiles, checkedFiles), <<>>) # {}

\* C8: loadFiles run again on the same answer of version control under the
\* same ignore patterns yields the getCheckedFiles of the run before, also when
\* the selection changed in between.
C8_RebuildIdempotent ==
    (lastOp.op = "loadFiles" /\ lastOp.same) => getCheckedFiles = lastOp.prev

\* the second of two equal rebuilds, the selection changed in between
C8_Witness ==
    /\ lastOp.op = "loadFiles"
    /\ lastOp.same
    /\ lastOp.changed
    /\ lastOp.prev # <<>>

\* the mutations of the change-set tree and the steps of those of the project
\* tree
TreeMutations == {"loadFiles", "setAllChecked", "handleCheckboxChanges"}

ProjectMutationSteps ==
    {"project.setAllChecked", "project.selectAll", "project.handleCheckboxChanges",
     "project.walk"}

C10_BatchesOneAtATime ==
    lastOp.op = "project.handleCheckboxChanges" => lastOp.inFlight = 0

\* C11: updateChangedFiles(files) of the project tree replaces the set of
\* locked paths with the given paths and leaves the selection as it was
C11_ChangeSetKeepsSelection ==
    [][lastOp'.op = "updateChangedFiles" =>
           /\ changedFilesSet' = lastOp'.named
           /\ projectCheckedFiles' = projectCheckedFiles]_vars

\* a change set that locks a selected path and drops a path locked before
C11_Witness ==
    /\ lastOp.op = "updateChangedFiles"
    /\ changedFilesSet \cap projectCheckedFiles # {}
    /\ ptSeen.changedFilesSet = changedFilesSet
    /\ changedFilesSet # {}

\* C12: no batch of checkbox changes of the project tree adds to or removes
\* from the selection a path that is locked when the batch is applied,
\* neither through a file entry (its node may be older than the lock) nor
\* through the cascade of a folder entry
C12_LockedNoTransition ==
    [][lastOp'.op \in {"project.handleCheckboxChanges", "project.walk"} =>
           \A p \in changedFilesSet :
               (p \in projectCheckedFiles') = (p \in projectCheckedFiles)]_vars

ExpectedTokens(len) ==
    IF len = Unreadable \/ len = 0 THEN 0
    ELSE CHOOSE k \in 1..len : 4 * k >= len /\ 4 * (k - 1) < len

\* what the estimator returns for path p: the memoized value, or the
\* estimate of the content on disk
EstimatorValue(p) ==
    IF p \in DOMAIN cache THEN cache[p] ELSE ExpectedTokens(content[p])

\* C14: getSelectedTokenTotal() is the sum of the estimator's values over
\* exactly the paths in the selection set, and it is 0 when the step before
\* was setAllChecked(false)
C14_TotalIsSumOverSelection ==
    [][lastOp'.op = "project.getSelectedTokenTotal" =>
           /\ lastOp'.value = SumOver([p \in fsFiles |-> EstimatorValue(p)],
                                      projectCheckedFiles)
           /\ (lastOp.op = "project.setAllChecked" /\ ~lastOp.checked) =>
                  lastOp'.value = 0]_vars

\* a total over part of the files, one of them with a memoized estimate that
\* its content no longer gives, while other files have estimates too
C14_Witness ==
    /\ lastOp.op = "project.getSelectedTokenTotal"
    /\ Cardinality(projectCheckedFiles) = 2
    /\ DOMAIN cache # projectCheckedFiles
    /\ \E p \in projectCheckedFiles : cache[p] # ExpectedTokens(content[p])
    /\ lastOp.value > 0

\* the first position at which paths p and q differ
FirstDifference(p, q) ==
    CHOOSE k \in 1..Len(p) : (k > Len(q) \/ p[k] # q[k]) /\ SubSeq(p, 1, k - 1) = SubSeq(q, 1, k - 1)

\* path p comes before path q in the hierarchy: where they part, a folder
\* comes before a file and names of one kind are in lexicographic order
HierarchyBefore(p, q) ==
    LET k == FirstDifference(p, q)
        pIsFolder == Len(p) > k
        qIsFolder == Len(q) > k
    IN IF pIsFolder # qIsFolder THEN pIsFolder
       ELSE localeCompare(p[k], q[k]) < 0

\* C15: getCheckedFiles() of the change-set tree returns the checked files in
\* hierarchy order: at each level folders first, then files, each group in
\* lexicographic order of the names, whatever the order version control
\* listed the paths in
C15_CheckedInHierarchyOrder ==
    \A i, j \in 1..Len(getCheckedFiles) :
        i < j => HierarchyBefore(getCheckedFiles[i].path, getCheckedFiles[j].path)

\* C16: the estimate is memoized by path: once estimateFromFile has returned
\* a value for a path, every call made later returns that value, whatever
\* happened to the file in between
C16_MemoizedByPath ==
    (lastOp.op = "estimateFromFile" /\ lastOp.hit) =>
        lastOp.value = returned[lastOp.path]

\* the estimate of a file of length len read with the given fallback
ExpectedEstimate(len, fallback) ==
    IF len = Unreadable /\ fallback.kind = "content"
    THEN ExpectedTokens(fallback.length)
    ELSE ExpectedTokens(len)

\* C17: the estimate of content of length L is max(1, ceil(L / 4)) when
\* L > 0 and 0 when it is empty; a file that cannot be read has estimate 0
\* without a fallback or with one that fails, and the estimate of the
\* fallback's content with one that works
C17_EstimateFormula ==
    [][(lastOp'.op = "estimateFromFile" /\ lastOp'.completed /\ ~lastOp'.hit) =>
           lastOp'.value = ExpectedEstimate(content[lastOp'.path], lastOp'.fallback)]_vars

\* an unreadable file estimated from the 6 characters of its fallback, after
\* a file of 5 characters was estimated as 2
C17_Witness ==
    /\ lastOp.op = "estimateFromFile" /\ lastOp.completed /\ ~lastOp.hit
    /\ content[lastOp.path] = Unreadable
    /\ lastOp.fallback.kind = "content"
    /\ lastOp.value = 2
    /\ \E q \in DOMAIN cache : q # lastOp.path /\ content[q] = 5 /\ cache[q] = 2

\* the pattern is empty or made of blanks only
Blank(pattern) == \A i \in 1..Len(Chars(pattern)) : Chars(pattern)[i] = " "

Literal(pattern) == \A i \in 1..Len(Chars(pattern)) : Chars(pattern)[i] # "*"

\* the pattern names a path of several segments
HasSlash(pattern) == \E i \in 1..Len(Chars(pattern)) : Chars(pattern)[i] = "/"

\* some segment of the path is the trimmed pattern, character by character
SomeSegmentEquals(filePath, pattern) ==
    \E j \in 1..Len(filePath) : Chars(filePath[j]) = Trim(Chars(pattern))

\* C19, as stated: for a pattern without glob metacharacters,
\* isMatch(path, [pattern]) is true exactly when some segment of the path
\* equals the trimmed pattern
C19_LiteralMatchesSegment ==
    (lastOp.op = "isMatch" /\ Len(lastOp.patterns) = 1
       /\ Literal(lastOp.patterns[1])) =>
        (lastOp.result <=> SomeSegmentEquals(lastOp.path, lastOp.patterns[1]))

\* C19, amended: for a pattern without glob metacharacters and without "/",
\* isMatch(path, [pattern]) is true exactly when some segment of the path
\* equals the trimmed pattern; "out" matches out/main.js and a/b/out/main.js
\* but not output/main.js, "package-lock.json" matches app/package-lock.json
\* but not app/package.json
C19_LiteralNameMatchesSegment ==
    /\ (lastOp.op = "isMatch" /\ Len(lastOp.patterns) = 1
          /\ Literal(lastOp.patterns[1]) /\ ~HasSlash(lastOp.patterns[1])) =>
           (lastOp.result <=> SomeSegmentEquals(lastOp.path, lastOp.patterns[1]))
    /\ (lastOp.op = "isMatch" /\ lastOp.patterns = <<"out">>) =>
           /\ lastOp.path \in {<<"out", "main.js">>, <<"a", "b", "out", "main.js">>}
                  => lastOp.result
           /\ lastOp.path = <<"output", "main.js">> => ~lastOp.result
    /\ (lastOp.op = "isMatch" /\ lastOp.patterns = <<"package-lock.json">>) =>
           /\ lastOp.path = <<"app", "package-lock.json">> => lastOp.result
           /\ lastOp.path = <<"app", "package.json">> => ~lastOp.result

\* a directory name in the middle of the path, matched by the segment test
C19_Witness ==
    /\ lastOp.op = "isMatch"
    /\ lastOp.patterns = <<"out">>
    /\ lastOp.path = <<"a", "b", "out", "main.js">>
    /\ lastOp.result

\* the root-relative paths of the entries of directory d
EntriesOf(d) ==
    {SubSeq(f, 1, Len(d) + 1) : f \in {g \in fsFiles : IsProperPrefix(d, g)}}

ReachableFiles ==
    {f \in fsFiles : \A k \in 0..(Len(f) - 1) : SubSeq(f, 1, k) \notin unreadable}

FolderEntriesOf(items) == {items[i] : i \in {j \in 1..Len(items) : items[j].node.kind = "folder"}}

\* what a batch without a file entry does in the change-set tree
TreeCascade(items) ==
    /\ \A e \in FolderEntriesOf(items) :
          /\ \A p \in DescendantFiles(e.node) : GetState(checkedFiles', p) = e.state
          /\ (e.state = Checked /\ DescendantFiles(e.node) # {}) =>
                \A ck \in {checkedFiles'} :
                   \A n \in AllNodes(buildFileTree(changedFiles, ck)) :
                      (/\ n.kind = "folder"
                       /\ n.label = e.node.label
                       /\ DescendantFiles(n) = DescendantFiles(e.node)) =>
                          n.checkboxState = Checked
    /\ \A p \in Paths(changedFiles) \ UNION {DescendantFiles(e.node) : e \in FolderEntriesOf(items)} :
          GetState(checkedFiles', p) = GetState(checkedFiles, p)

\* what the round of one folder entry does in the project tree
ProjectCascade(folderPath, checked) ==
    LET eligible == EligibleUnder(folderPath)
    IN projectCheckedFiles' = IF checked THEN projectCheckedFiles \cup eligible
                              ELSE projectCheckedFiles \ eligible

C23_LockedIsChangeList ==
    lastOp.csFires > 0 => changedFilesSet = Paths(changedFiles)

\* a notification with a change list that the filter has shortened and with a
\* file of it unchecked
C23_Witness ==
    /\ lastOp.csFires > 0
    /\ activeIgnorePatterns = <<"*.ts", "">>
    /\ changedFilesSet = {<<"docs", "readme.md">>}
    /\ GetState(checkedFiles, <<"docs", "readme.md">>) = Unchecked

\* C24: the walk of setAllChecked(true) in the project tree runs as an
\* operation that can be canceled: while it is in progress the progress
\* notification offers the cancel and the task observes it, so that a cancel
\* keeps the paths added so far and adds no more.
C24_SelectAllCancelable ==
    selecting > 0 => (SelectAllProgress.cancellable /\ SelectAllProgress.token)

\* C25: the cache of the cost estimator is append-only: an entry that has
\* been written for a path is never changed or removed by a later step, a
\* second estimateFromFile for the path that read other content included.
C25_CacheAppendOnly ==
    [][\A p \in DOMAIN cache : p \in DOMAIN cache' /\ cache'[p] = cache[p]]_vars

\* the mapping {p1: true, .., pn: true} of a legacy list
AsMapping(items) ==
    [kind |-> "object", items |-> <<>>,
     entries |-> forEachPattern(items, <<>>)]

\* C26: the configured ignore patterns are normalized to the list of enabled
\* patterns: a legacy list gives the active set of the mapping of its
\* patterns to true, which is the set of its patterns; a mapping gives the
\* patterns it maps to true and none it maps to false; every other value
\* gives the empty set.
C26_ConfigNormalized ==
    lastOp.op = "loadConfig" =>
        LET rawConfig == lastOp.output
            active == SeqToSet(lastOp.patterns)
        IN /\ rawConfig.kind = "array" =>
                 /\ active = SeqToSet(rawConfig.items)
                 /\ active = SeqToSet(loadConfig(AsMapping(rawConfig.items)))
           /\ rawConfig.kind = "object" =>
                 active = {rawConfig.entries[i].key :
                              i \in {j \in 1..Len(rawConfig.entries) : rawConfig.entries[j].value}}
           /\ rawConfig.kind \notin {"array", "object"} => active = {}

\* a mapping with a pattern switched off beside one switched on
C26_Witness ==
    /\ lastOp.op = "loadConfig"
    /\ lastOp.output.kind = "object"
    /\ \E i, j \in 1..Len(lastOp.output.entries) :
          lastOp.output.entries[i].value /\ ~lastOp.output.entries[j].value
    /\ projectIgnorePatterns # <<>>

\* C27: at every point getCheckedFiles() of the project tree, the paths of
\* its selection set, holds no path that is locked, a path that was selected
\* before updateChangedFiles locked it included.
C27_CheckedNeverLocked ==
    \A p \in projectCheckedFiles : p \notin changedFilesSet

\* C28: whenever no loadFiles() of the change-set tree is in flight and both
\* refs are set, the change list is an answer of version control for the
\* configured pair of refs, filtered, and the selection is over its paths: a
\* load that was started for an earlier pair never leaves the final state.
C28_ListIsForConfiguredRefs ==
    (loading = <<>> /\ history.done /\ targetBranch # "" /\ sourceBranch # "") =>
        /\ \E allFiles \in GitResults(targetBranch, sourceBranch) :
              changedFiles = FilterIgnored(allFiles, activeIgnorePatterns)
        /\ DOMAIN checkedFiles = Paths(changedFiles)

\* C29: when setAllChecked(false) of the project tree has run while a
\* setAllChecked(true) or a folder cascade that was started before it is
\* still in its walk, the resuming operation adds no path: the step after the
\* deselect that resumes such an operation leaves getCheckedFiles() empty.
C29_DeselectIsFinal ==
    [][(/\ lastOp.op = "project.setAllChecked"
        /\ ~lastOp.checked
        /\ lastOp'.op \in {"project.selectAll", "project.walk"})
       => projectCheckedFiles' = {}]_vars

\* C30: every operation of the project tree that changes the selection set (a
\* batch of checkbox changes, setAllChecked(true), setAllChecked(false))
\* fires onDidUpdateSelection after the change: the step that completes an
\* operation and changes the set fires the event.
C30_SelectionChangeFires ==
    [][(/\ lastOp'.completed
        /\ lastOp'.op \in {"project.handleCheckboxChanges", "project.walk",
                           "project.selectAll", "project.setAllChecked"}
        /\ projectCheckedFiles' # projectCheckedFiles)
       => lastOp'.selFires >= 1]_vars

====
